---- MODULE Spec2Model ----
(***************************************************************************)
(* Retrieval engine of the CarMecanicAgent repository (src/pdf_indexer.py):*)
(* chunking, the keyword / semantic / hybrid rankers and the persisted     *)
(* index life cycle (build_index, save_index, load_index).                 *)
(*                                                                         *)
(* Text is modelled character by character: a string is a sequence of     *)
(* one-character strings.  Scores are exact rationals [n, d].              *)
(***************************************************************************)
EXTENDS Integers, Sequences, FiniteSets, TLC

VARIABLES
    Config,            \* class Config: CHUNK_SIZE, CHUNK_OVERLAP, TOP_K_RESULTS, SIMILARITY_THRESHOLD
    index,             \* index[p]: self.index of indexer p (None or the sequence of rows)
    metadata,          \* metadata[p]: self.metadata
    chunks,            \* chunks[p]: self.chunks
    images_metadata,   \* images_metadata[p]: self.images_metadata (page -> descriptors)
    call,              \* the last query call and what it returned
    walk,              \* create_chunks in progress: its locals
    disk,              \* the artifacts under Config.VECTOR_STORE_PATH
    pc,                \* pc[p]: where process p is in build_index / load_index
    job                \* job[p]: the build_index / load_index call of process p

vars == <<Config, index, metadata, chunks, images_metadata, call, walk, disk, pc, job>>

\* self.index before any build or load (None), and an index holding rows.
NoIndex == [is_none |-> TRUE, rows |-> <<>>]
IndexOf(rows) == [is_none |-> FALSE, rows |-> rows]

\* The indexer instances (one per process).
Procs == {1, 2}

-----------------------------------------------------------------------------
(* Strings *)

IsSpace(c) == c = " "

\* str.lower on one character of the alphabet used here.
LowerChar(c) ==
    CASE c = "A" -> "a"
      [] c = "B" -> "b"
      [] c = "Y" -> "y"
      [] OTHER -> c

Lower(s) == [i \in 1..Len(s) |-> LowerChar(s[i])]

Min(a, b) == IF a < b THEN a ELSE b
Max(a, b) == IF a > b THEN a ELSE b

\* Python's s[a:b] (0-based, end exclusive, negative indices count from the end).
PyIndex(i, n) == IF i < 0 THEN Max(i + n, 0) ELSE Min(i, n)
Slice(s, a, b) == SubSeq(s, PyIndex(a, Len(s)) + 1, PyIndex(b, Len(s)))

\* str.strip(): the text between the first and the last non-whitespace
\* character.
FirstNonSpace(s) ==
    CHOOSE i \in 1..Len(s) : ~IsSpace(s[i]) /\ \A j \in 1..(i - 1) : IsSpace(s[j])
LastNonSpace(s) ==
    CHOOSE i \in 1..Len(s) : ~IsSpace(s[i]) /\ \A j \in (i + 1)..Len(s) : IsSpace(s[j])
Strip(s) ==
    IF \A i \in 1..Len(s) : IsSpace(s[i])
    THEN <<>>
    ELSE SubSeq(s, FirstNonSpace(s), LastNonSpace(s))

\* s.split(): the maximal runs of non-whitespace characters, as a set.
WordStarts(s) == {i \in 1..Len(s) : ~IsSpace(s[i]) /\ (i = 1 \/ IsSpace(s[i - 1]))}
WordEnd(s, i) ==
    CHOOSE j \in i..Len(s) :
        /\ j = Len(s) \/ IsSpace(s[j + 1])
        /\ \A k \in i..j : ~IsSpace(s[k])
Split(s) == {SubSeq(s, i, WordEnd(s, i)) : i \in WordStarts(s)}

\* set(s.lower().split())
WordSet(s) == Split(Lower(s))

-----------------------------------------------------------------------------
(* Rationals: similarity scores *)

Rat(n, d) == [n |-> n, d |-> d]
RatLess(a, b) == a.n * b.d < b.n * a.d
RatEq(a, b) == a.n * b.d = b.n * a.d
RatLeq(a, b) == a.n * b.d <= b.n * a.d

\* x * 0.7
KeywordWeight(x) == Rat(7 * x.n, 10 * x.d)

-----------------------------------------------------------------------------
(* Chunker: create_chunks *)

\* The loop body without the test of the trimmed window: every window
\* appends a chunk.
WindowStepEmitBlank(text, page_num, w) ==
    LET end == w.start + Config.CHUNK_SIZE
        chunk_text == Slice(text, w.start, end)
    IN [start |-> end - Config.CHUNK_OVERLAP,
        chunks |-> Append(w.chunks,
                          [text |-> Strip(chunk_text),
                           page |-> page_num,
                           start_pos |-> w.start,
                           end_pos |-> Min(end, Len(text))])]

\* The loop body recording the window's end without clipping it to the
\* length of the text.
WindowStepUnclipped(text, page_num, w) ==
    LET end == w.start + Config.CHUNK_SIZE
        chunk_text == Slice(text, w.start, end)
        emitted == IF Strip(chunk_text) # <<>>
                   THEN Append(w.chunks,
                               [text |-> Strip(chunk_text),
                                page |-> page_num,
                                start_pos |-> w.start,
                                end_pos |-> end])
                   ELSE w.chunks
    IN [start |-> end - Config.CHUNK_OVERLAP, chunks |-> emitted]

\* One iteration of the while loop of create_chunks on page text `text`,
\* from the locals w = [start, chunks].
WindowStep(text, page_num, w) ==
    LET end == w.start + Config.CHUNK_SIZE
        chunk_text == Slice(text, w.start, end)
        emitted == IF Strip(chunk_text) # <<>>
                   THEN Append(w.chunks,
                               [text |-> Strip(chunk_text),
                                page |-> page_num,
                                start_pos |-> w.start,
                                end_pos |-> Min(end, Len(text))])
                   ELSE w.chunks
    IN [start |-> end - Config.CHUNK_OVERLAP, chunks |-> emitted]

\* The value of the one-element set S.
The(S) == CHOOSE x \in S : TRUE

\* The walk over one page, run to its end (defined for a positive step).
\* Each step's locals are bound as values before the next step reads them.
RECURSIVE WalkPage(_, _, _)
WalkPage(text, page_num, w) ==
    IF w.start < Len(text)
    THEN The({WalkPage(text, page_num, next) : next \in {WindowStep(text, page_num, w)}})
    ELSE w.chunks

RECURSIVE ChunkPages(_, _, _)
ChunkPages(pages_text, i, acc) ==
    IF i > Len(pages_text) THEN acc
    ELSE The({ChunkPages(pages_text, i + 1, after) :
                 after \in {WalkPage(pages_text[i][1], pages_text[i][2],
                                     [start |-> 0, chunks |-> acc])}})

\* create_chunks(pages_text) as a function, for CHUNK_OVERLAP < CHUNK_SIZE.
CreateChunks(pages_text) == ChunkPages(pages_text, 1, <<>>)

-----------------------------------------------------------------------------
(* Embedding gateway and vector index (external capabilities) *)

\* embedding_model.encode(text): an opaque vector, the same for the same text.
Embed(text) == <<"vec", text>>

\* generate_embeddings answering its vectors in the reverse order.
GenerateEmbeddingsReversed(cs) == [i \in 1..Len(cs) |-> Embed(cs[Len(cs) + 1 - i].text)]

\* generate_embeddings: one vector per chunk, in chunk order.
GenerateEmbeddings(cs) == [i \in 1..Len(cs) |-> Embed(cs[i].text)]

\* faiss reports an unfilled slot as row -1 at the largest float distance.
NoNeighbourDistance == 1000000

\* The distance to similarity conversion of search_semantic.
Similarity(distance) == Rat(1, 1 + distance)

\* index.search(query_embedding, k): k slots <<distance, idx>> (idx 0-based),
\* the rows in ascending distance, the order among equal distances being
\* `order` (the library's choice), then the unfilled slots.  `dist` gives the
\* L2 distance of each stored vector to the query.
IndexSearch(rows, dist, order, k) ==
    [j \in 1..k |->
        IF j <= Len(rows)
        THEN <<dist[rows[order[j]]], order[j] - 1>>
        ELSE <<NoNeighbourDistance, -1>>]

\* The orders index.search may answer in: permutations of the rows by
\* non-decreasing distance.
SearchOrders(rows, dist) ==
    {o \in [1..Len(rows) -> 1..Len(rows)] :
        /\ \A i, j \in 1..Len(rows) : i # j => o[i] # o[j]
        /\ \A i \in 1..(Len(rows) - 1) : dist[rows[o[i]]] <= dist[rows[o[i + 1]]]}

\* list[idx] of Python for idx in -len..len-1.
PyAt(s, idx) == IF idx < 0 THEN s[Len(s) + idx + 1] ELSE s[idx + 1]

-----------------------------------------------------------------------------
(* Rankers.  A ranker returns [status, results]; status "error" is a raise. *)

Raise == [status |-> "error", results |-> <<>>]
Return(rs) == [status |-> "ok", results |-> rs]

\* top_k = top_k or Config.TOP_K_RESULTS (None and 0 are both falsy: an
\* omitted top_k is passed as 0).
TopKOrDefault(top_k) ==
    IF top_k = 0 THEN Config.TOP_K_RESULTS ELSE top_k

\* FormatResult without the threshold test.
FormatResultNoThreshold(slot, md, results) ==
    IF slot[2] < Len(md)
    THEN Append(results, [text |-> PyAt(md, slot[2]).text,
                          page |-> PyAt(md, slot[2]).page,
                          similarity |-> Similarity(slot[1]),
                          type |-> "semantic"])
    ELSE results

\* One pass of the result loop of search_semantic, for one slot of index.search.
FormatResult(slot, md, results) ==
    LET distance == slot[1]
        idx == slot[2]
        similarity == Similarity(distance)
    IN IF idx < Len(md) /\ RatLeq(Config.SIMILARITY_THRESHOLD, similarity)
       THEN Append(results, [text |-> PyAt(md, idx).text,
                             page |-> PyAt(md, idx).page,
                             similarity |-> similarity,
                             type |-> "semantic"])
       ELSE results

RECURSIVE FormatResults(_, _, _, _)
FormatResults(slots, md, j, results) ==
    IF j > Len(slots) THEN results
    ELSE The({FormatResults(slots, md, j + 1, next) :
                 next \in {FormatResult(slots[j], md, results)}})

\* search_semantic(query, top_k) of indexer p.  env = [dist, order, encode_ok]
\* is what the embedding model and the index library answer for this query.
SearchSemanticOp(p, top_k, env) ==
    IF index[p].is_none \/ Len(metadata[p]) = 0 THEN Raise
    ELSE IF ~env.encode_ok THEN Raise
    ELSE Return(FormatResults(
             IndexSearch(index[p].rows, env.dist, env.order, TopKOrDefault(top_k)),
             metadata[p], 1, <<>>))

\* matches / len(query_words) of one chunk text.
OverlapScore(query_words, text_words) ==
    Rat(Cardinality(query_words \cap text_words), Cardinality(query_words))

\* ScoreChunk without the test that some word matches.
ScoreChunkAll(query_words, chunk_data, scored_chunks) ==
    Append(scored_chunks, [text |-> chunk_data.text,
                           page |-> chunk_data.page,
                           similarity |-> OverlapScore(query_words, WordSet(chunk_data.text)),
                           type |-> "keyword"])

\* ScoreChunk dividing by the number of query words before it tests that
\* some word matches.
ScoreChunkDivideFirst(query_words, chunk_data, scored_chunks) ==
    The({IF Cardinality(query_words \cap text_words) > 0 \/ Cardinality(query_words) = 0
         THEN Append(scored_chunks, [text |-> chunk_data.text,
                                     page |-> chunk_data.page,
                                     similarity |-> OverlapScore(query_words, text_words),
                                     type |-> "keyword"])
         ELSE scored_chunks :
         text_words \in {WordSet(chunk_data.text)}})

\* One pass of the scoring loop of search_keyword.
ScoreChunk(query_words, chunk_data, scored_chunks) ==
    The({IF Cardinality(query_words \cap text_words) > 0
         THEN Append(scored_chunks, [text |-> chunk_data.text,
                                     page |-> chunk_data.page,
                                     similarity |-> OverlapScore(query_words, text_words),
                                     type |-> "keyword"])
         ELSE scored_chunks :
         text_words \in {WordSet(chunk_data.text)}})

RECURSIVE ScoreChunks(_, _, _, _)
ScoreChunks(query_words, md, i, scored_chunks) ==
    IF i > Len(md) THEN scored_chunks
    ELSE The({ScoreChunks(query_words, md, i + 1, next) :
                 next \in {ScoreChunk(query_words, md[i], scored_chunks)}})

\* list.sort(key=similarity, reverse=True): stable, descending.  x goes
\* after every element that does not sort below it.
InsertDesc(sorted, x) ==
    LET before == {i \in 1..Len(sorted) : ~RatLess(sorted[i].similarity, x.similarity)}
    IN SubSeq(sorted, 1, Cardinality(before)) \o <<x>>
         \o SubSeq(sorted, Cardinality(before) + 1, Len(sorted))

RECURSIVE SortDescFrom(_, _, _)
SortDescFrom(s, i, sorted) ==
    IF i > Len(s) THEN sorted
    ELSE The({SortDescFrom(s, i + 1, next) : next \in {InsertDesc(sorted, s[i])}})

SortBySimilarity(s) == SortDescFrom(s, 1, <<>>)

\* search_keyword(query, top_k) of indexer p.  A score with denominator 0
\* is a division that raised ZeroDivisionError in the scoring loop.
SearchKeywordOp(p, query, top_k) ==
    IF Len(metadata[p]) = 0 THEN Raise
    ELSE The({IF \E i \in 1..Len(scored_chunks) : scored_chunks[i].similarity.d = 0
              THEN Raise
              ELSE Return(Slice(SortBySimilarity(scored_chunks), 0, TopKOrDefault(top_k))) :
                 scored_chunks \in {The({ScoreChunks(query_words, metadata[p], 1, <<>>) :
                                            query_words \in {WordSet(query)}})}})

\* The deduplication key of search_hybrid.
KeyPrefixLen == 100
Key(result) == <<result.page, Slice(result.text, 0, KeyPrefixLen)>>

\* merged is a dict in insertion order: a sequence of [key, value].
Position(merged, key) ==
    IF \E i \in 1..Len(merged) : merged[i].key = key
    THEN CHOOSE i \in 1..Len(merged) : merged[i].key = key
    ELSE 0

\* Put that adds an entry without looking for the key.
PutAlways(merged, key, value) == Append(merged, [key |-> key, value |-> value])

Put(merged, key, value) ==
    IF Position(merged, key) = 0
    THEN Append(merged, [key |-> key, value |-> value])
    ELSE [merged EXCEPT ![Position(merged, key)].value = value]

\* One pass of the loop over semantic_results.
MergeSemantic(merged, result) ==
    The({IF at = 0 \/ RatLess(merged[at].value.similarity, result.similarity)
         THEN Put(merged, Key(result), result)
         ELSE merged :
         at \in {Position(merged, Key(result))}})

\* MergeKeyword without the test that the entry it replaces is a keyword one.
MergeKeywordOverSemantic(merged, result) ==
    The({IF at = 0
         THEN Put(merged, Key(result),
                  [result EXCEPT !.similarity = KeywordWeight(result.similarity)])
         ELSE IF RatLess(merged[at].value.similarity, result.similarity)
              THEN Put(merged, Key(result), result)
              ELSE merged :
         at \in {Position(merged, Key(result))}})

\* One pass of the loop over keyword_results.
MergeKeyword(merged, result) ==
    The({IF at = 0
         THEN Put(merged, Key(result),
                  [result EXCEPT !.similarity = KeywordWeight(result.similarity)])
         ELSE IF merged[at].value.type = "keyword"
                 /\ RatLess(merged[at].value.similarity, result.similarity)
              THEN Put(merged, Key(result), result)
              ELSE merged :
         at \in {Position(merged, Key(result))}})

RECURSIVE MergeSemanticAll(_, _, _)
MergeSemanticAll(merged, rs, i) ==
    IF i > Len(rs) THEN merged
    ELSE The({MergeSemanticAll(next, rs, i + 1) : next \in {MergeSemantic(merged, rs[i])}})

RECURSIVE MergeKeywordAll(_, _, _)
MergeKeywordAll(merged, rs, i) ==
    IF i > Len(rs) THEN merged
    ELSE The({MergeKeywordAll(next, rs, i + 1) : next \in {MergeKeyword(merged, rs[i])}})

\* The merged dict of search_hybrid from the two result lists.
Merged(semantic_results, keyword_results) ==
    The({MergeKeywordAll(with_semantic, keyword_results, 1) :
            with_semantic \in {MergeSemanticAll(<<>>, semantic_results, 1)}})

Values(merged) == [i \in 1..Len(merged) |-> merged[i].value]

\* The tail of search_hybrid: merge, sort, truncate.
Fuse(semantic_results, keyword_results, top_k) ==
    The({Slice(SortBySimilarity(results), 0, top_k) :
            results \in {Values(Merged(semantic_results, keyword_results))}})

\* search_hybrid(query, top_k) of indexer p: an error of either sub-ranker
\* propagates to the caller.
SearchHybridOp(p, query, top_k, env) ==
    The({IF semantic.status = "error" THEN Raise
         ELSE The({IF keyword.status = "error" THEN Raise
                   ELSE Return(Fuse(semantic.results, keyword.results,
                                    TopKOrDefault(top_k))) :
                   keyword \in {SearchKeywordOp(p, query, TopKOrDefault(top_k) * 2)}}) :
         semantic \in {SearchSemanticOp(p, TopKOrDefault(top_k) * 2, env)}})

-----------------------------------------------------------------------------
(* Files of the vector store *)

Absent == [st |-> "absent", data |-> <<>>]
\* What a write that failed part-way leaves: a file that cannot be parsed.
Partial == [st |-> "partial", data |-> <<>>]
Written(data) == [st |-> "ok", data |-> data]

\* Path.exists()
Exists(file) == file.st # "absent"

NoJob == [op |-> "none", pdf |-> "none", outcome |-> "none", path |-> "none",
          pages_text |-> <<>>, n |-> 0]

\* No query call in progress, create_chunks not running.
NoEnv == [dist |-> <<>>, order |-> <<>>, encode_ok |-> TRUE]
NoCall == [op |-> "none", p |-> 0, query |-> <<>>, top_k |-> 0, env |-> NoEnv,
           page_num |-> 0, status |-> "ok", results |-> <<>>]
NoWalk == [pc |-> "idle", pages_text |-> <<>>, i |-> 0, start |-> 0, chunks |-> <<>>]

\* No artifact on disk and no build_index or load_index call made.
StoreAtRest ==
    /\ disk = [index |-> Absent, metadata |-> Absent, images |-> Absent]
    /\ pc = [p \in Procs |-> "idle"]
    /\ job = [p \in Procs |-> NoJob]

\* The page numbers a key of the image map may be.
PageNumbers == 0..99

\* json.dump of the image map writes its integer page keys as strings;
\* load_index converts them back with int(k).
DumpImages(im) ==
    [s \in {ToString(k) : k \in DOMAIN im} |->
        im[CHOOSE k \in DOMAIN im : ToString(k) = s]]

\* load_index keeping the page keys as json.load gives them.
LoadImagesAsRead(data) == data

LoadImages(data) ==
    [k \in {CHOOSE n \in PageNumbers : ToString(n) = s : s \in DOMAIN data} |->
        data[ToString(k)]]

\* get_images_for_page(page_num): self.images_metadata.get(page_num, [])
GetImagesForPageOp(p, page_num) ==
    IF page_num \in DOMAIN images_metadata[p]
    THEN images_metadata[p][page_num]
    ELSE <<>>

\* bool(self.images_metadata)
HasImages(p) == DOMAIN images_metadata[p] # {}

-----------------------------------------------------------------------------
(* Ingestion *)

\* The documents: DocA has one page with text and one image, DocB has a
\* page of text and a blank page, and no image.
DocA ==
    [pages |-> << [text |-> <<"a", "b">>,
                   images |-> << [xref |-> 7, width |-> 2, height |-> 3,
                                  rects |-> << [x0 |-> 0, y0 |-> 0, x1 |-> 2, y1 |-> 3] >>] >>] >>]
DocB ==
    [pages |-> << [text |-> <<"a", " ", "b">>, images |-> <<>>],
                  [text |-> <<" ">>, images |-> <<>>] >>]
Pdfs == {"A", "B"}
Pdf(name) == IF name = "A" THEN DocA ELSE DocB

\* extract_images_from_page: one descriptor per rectangle of each image.
RECURSIVE ImagesInfo(_, _, _)
ImagesInfo(image_list, k, images_info) ==
    IF k > Len(image_list) THEN images_info
    ELSE ImagesInfo(image_list, k + 1,
             images_info \o
             [r \in 1..Len(image_list[k].rects) |->
                 [xref |-> image_list[k].xref,
                  index |-> k - 1,
                  width |-> image_list[k].width,
                  height |-> image_list[k].height,
                  rect |-> image_list[k].rects[r],
                  area |-> (image_list[k].rects[r].x1 - image_list[k].rects[r].x0)
                           * (image_list[k].rects[r].y1 - image_list[k].rects[r].y0)]])

ExtractImagesFromPage(page) == ImagesInfo(page.images, 1, <<>>)

\* self.images_metadata[page_num + 1] = images_info, for each page with images.
RECURSIVE PagesImages(_, _, _)
PagesImages(doc, n, im) ==
    IF n > Len(doc.pages) THEN im
    ELSE The({PagesImages(doc, n + 1, next) :
                 next \in {IF ExtractImagesFromPage(doc.pages[n]) # <<>>
                           THEN (n :> ExtractImagesFromPage(doc.pages[n])) @@ im
                           ELSE im}})

\* pages_text of extract_text_from_pdf: the pages whose text is not blank.
RECURSIVE PagesText(_, _, _)
PagesText(doc, n, pages_text) ==
    IF n > Len(doc.pages) THEN pages_text
    ELSE PagesText(doc, n + 1,
                   IF Strip(doc.pages[n].text) # <<>>
                   THEN Append(pages_text, <<doc.pages[n].text, n>>)
                   ELSE pages_text)

-----------------------------------------------------------------------------
(* build_index, save_index, load_index: one file operation per step *)

\* Bound on the build_index / load_index calls made by the processes.
MaxCalls == 3
CallsMade == job[1].n + job[2].n

Goto(p, label) ==
    /\ pc' = [pc EXCEPT ![p] = label]
    /\ UNCHANGED job

\* The call returns to its caller.
ReturnOk(p) ==
    /\ pc' = [pc EXCEPT ![p] = "idle"]
    /\ job' = [job EXCEPT ![p].outcome = "ok"]

\* The call raises to its caller.
Raises(p) ==
    /\ pc' = [pc EXCEPT ![p] = "idle"]
    /\ job' = [job EXCEPT ![p].outcome = "error"]

\* open(path, 'w') and a dump to it (or faiss.write_index): the file is
\* replaced, or the write raises, leaving the file unparseable or untouched.
WriteFile(p, name, data, label) ==
    \/ disk' = [disk EXCEPT ![name] = Written(data)] /\ Goto(p, label)
    \/ disk' = [disk EXCEPT ![name] = Partial] /\ Raises(p)
    \/ UNCHANGED disk /\ Raises(p)

\* A process calls build_index(pdf_path).
BuildIndexCall(p) ==
    /\ pc[p] = "idle" /\ CallsMade < MaxCalls
    /\ \E pdf \in Pdfs :
          job' = [job EXCEPT ![p] = [op |-> "build_index", pdf |-> pdf,
                                     outcome |-> "running", path |-> "none",
                                     pages_text |-> <<>>, n |-> job[p].n + 1]]
    /\ pc' = [pc EXCEPT ![p] = "b_check"]
    /\ UNCHANGED <<Config, index, metadata, chunks, images_metadata, call, walk, disk>>

\* A process calls load_index() (setup_tools).
LoadIndexCall(p) ==
    /\ pc[p] = "idle" /\ CallsMade < MaxCalls
    /\ job' = [job EXCEPT ![p] = [op |-> "load_index", pdf |-> "none",
                                  outcome |-> "running", path |-> "load",
                                  pages_text |-> <<>>, n |-> job[p].n + 1]]
    /\ pc' = [pc EXCEPT ![p] = "l_index"]
    /\ UNCHANGED <<Config, index, metadata, chunks, images_metadata, call, walk, disk>>

\* build_index: if the index and the metadata exist, load them; otherwise
\* run the full pipeline.
BuildCheck(p) ==
    /\ pc[p] = "b_check"
    /\ IF Exists(disk.index) /\ Exists(disk.metadata)
       THEN /\ pc' = [pc EXCEPT ![p] = "l_index"]
            /\ job' = [job EXCEPT ![p].path = "load"]
       ELSE /\ pc' = [pc EXCEPT ![p] = "b_extract"]
            /\ job' = [job EXCEPT ![p].path = "full"]
    /\ UNCHANGED <<Config, index, metadata, chunks, images_metadata, call, walk, disk>>

\* extract_text_from_pdf: fitz.open raises, or every page is read.
BuildExtract(p) ==
    /\ pc[p] = "b_extract"
    /\ \/ /\ Raises(p)
          /\ UNCHANGED images_metadata
       \/ /\ images_metadata' =
                [images_metadata EXCEPT
                    ![p] = PagesImages(Pdf(job[p].pdf), 1, images_metadata[p])]
          /\ job' = [job EXCEPT ![p].pages_text = PagesText(Pdf(job[p].pdf), 1, <<>>)]
          /\ pc' = [pc EXCEPT ![p] = "b_chunk"]
    /\ UNCHANGED <<Config, index, metadata, chunks, call, walk, disk>>

\* chunks = self.create_chunks(pages_text); self.chunks = chunks
BuildChunk(p) ==
    /\ pc[p] = "b_chunk"
    /\ chunks' = [chunks EXCEPT ![p] = CreateChunks(job[p].pages_text)]
    /\ Goto(p, "b_embed")
    /\ UNCHANGED <<Config, index, metadata, images_metadata, call, walk, disk>>

\* generate_embeddings raises, or the index is filled with the embeddings
\* and self.metadata = chunks.
BuildEmbed(p) ==
    /\ pc[p] = "b_embed"
    /\ \/ /\ Raises(p)
          /\ UNCHANGED <<index, metadata>>
       \/ /\ index' = [index EXCEPT ![p] = IndexOf(GenerateEmbeddings(chunks[p]))]
          /\ metadata' = [metadata EXCEPT ![p] = chunks[p]]
          /\ Goto(p, "s_index")
    /\ UNCHANGED <<Config, chunks, images_metadata, call, walk, disk>>

\* save_index: faiss.write_index(self.index, INDEX_PATH)
SaveIndexFile(p) ==
    /\ pc[p] = "s_index"
    /\ WriteFile(p, "index", index[p].rows, "s_metadata")
    /\ UNCHANGED <<Config, index, metadata, chunks, images_metadata, call, walk>>

\* save_index: json.dump(self.metadata) to METADATA_PATH
SaveMetadataFile(p) ==
    /\ pc[p] = "s_metadata"
    /\ WriteFile(p, "metadata", metadata[p], "s_images")
    /\ UNCHANGED <<Config, index, metadata, chunks, images_metadata, call, walk>>

\* save_index: json.dump(self.images_metadata) to IMAGES_METADATA_PATH
SaveImagesFile(p) ==
    /\ pc[p] = "s_images"
    /\ WriteFile(p, "images", DumpImages(images_metadata[p]), "b_images")
    /\ UNCHANGED <<Config, index, metadata, chunks, images_metadata, call, walk>>

\* build_index, after save_index: the image metadata is written once more
\* if there is any; then the build returns.
BuildSaveImages(p) ==
    /\ pc[p] = "b_images"
    /\ IF HasImages(p)
       THEN \/ disk' = [disk EXCEPT !.images = Written(DumpImages(images_metadata[p]))]
               /\ ReturnOk(p)
            \/ disk' = [disk EXCEPT !.images = Partial] /\ Raises(p)
            \/ UNCHANGED disk /\ Raises(p)
       ELSE UNCHANGED disk /\ ReturnOk(p)
    /\ UNCHANGED <<Config, index, metadata, chunks, images_metadata, call, walk>>

\* load_index: the index file is missing or unreadable (raise), or
\* self.index = faiss.read_index(INDEX_PATH).
LoadIndexFile(p) ==
    /\ pc[p] = "l_index"
    /\ IF disk.index.st = "ok"
       THEN /\ index' = [index EXCEPT ![p] = IndexOf(disk.index.data)]
            /\ Goto(p, "l_metadata")
       ELSE /\ Raises(p)
            /\ UNCHANGED index
    /\ UNCHANGED <<Config, metadata, chunks, images_metadata, call, walk, disk>>

\* load_index: self.metadata = json.load(METADATA_PATH), or the open or
\* the parse raises.
LoadMetadataFile(p) ==
    /\ pc[p] = "l_metadata"
    /\ IF disk.metadata.st = "ok"
       THEN /\ metadata' = [metadata EXCEPT ![p] = disk.metadata.data]
            /\ Goto(p, "l_images")
       ELSE /\ Raises(p)
            /\ UNCHANGED metadata
    /\ UNCHANGED <<Config, index, chunks, images_metadata, call, walk, disk>>

\* load_index: the image metadata is loaded if its file exists.  Then
\* load_index returns, to build_index when build_index called it.
LoadImagesFile(p) ==
    /\ pc[p] = "l_images"
    /\ IF disk.images.st = "partial"
       THEN /\ Raises(p)
            /\ UNCHANGED images_metadata
       ELSE /\ images_metadata' =
                  IF Exists(disk.images)
                  THEN [images_metadata EXCEPT ![p] = LoadImages(disk.images.data)]
                  ELSE images_metadata
            /\ IF job[p].op = "load_index" THEN ReturnOk(p) ELSE Goto(p, "b_repair")
    /\ UNCHANGED <<Config, index, metadata, chunks, call, walk, disk>>

\* build_index after the load: extract the images if the image metadata is
\* missing or empty, else return.
BuildRepairCheck(p) ==
    /\ pc[p] = "b_repair"
    /\ IF ~Exists(disk.images) \/ ~HasImages(p)
       THEN Goto(p, "x_extract")
       ELSE ReturnOk(p)
    /\ UNCHANGED <<Config, index, metadata, chunks, images_metadata, call, walk, disk>>

\* _extract_images_metadata: fitz.open raises, or the images of every page
\* are extracted.
ExtractImagesMetadata(p) ==
    /\ pc[p] = "x_extract"
    /\ \/ /\ Raises(p)
          /\ UNCHANGED images_metadata
       \/ /\ images_metadata' =
                [images_metadata EXCEPT
                    ![p] = PagesImages(Pdf(job[p].pdf), 1, images_metadata[p])]
          /\ Goto(p, "x_write")
    /\ UNCHANGED <<Config, index, metadata, chunks, call, walk, disk>>

\* _extract_images_metadata: the image metadata is saved if there is any.
ExtractImagesWrite(p) ==
    /\ pc[p] = "x_write"
    /\ IF HasImages(p)
       THEN \/ disk' = [disk EXCEPT !.images = Written(DumpImages(images_metadata[p]))]
               /\ ReturnOk(p)
            \/ disk' = [disk EXCEPT !.images = Partial] /\ Raises(p)
            \/ UNCHANGED disk /\ Raises(p)
       ELSE UNCHANGED disk /\ ReturnOk(p)
    /\ UNCHANGED <<Config, index, metadata, chunks, images_metadata, call, walk>>

Step(p) ==
    \/ BuildIndexCall(p) \/ LoadIndexCall(p) \/ BuildCheck(p)
    \/ BuildExtract(p) \/ BuildChunk(p) \/ BuildEmbed(p)
    \/ SaveIndexFile(p) \/ SaveMetadataFile(p) \/ SaveImagesFile(p)
    \/ BuildSaveImages(p)
    \/ LoadIndexFile(p) \/ LoadMetadataFile(p) \/ LoadImagesFile(p)
    \/ BuildRepairCheck(p) \/ ExtractImagesMetadata(p) \/ ExtractImagesWrite(p)

\* Values of CHUNK_SIZE and CHUNK_OVERLAP for the documents above.
StoreChunkSize == 2
StoreChunkOverlap == 1

\* Fresh indexer instances and an empty vector store.
Init ==
    /\ Config = [CHUNK_SIZE |-> StoreChunkSize, CHUNK_OVERLAP |-> StoreChunkOverlap,
                 TOP_K_RESULTS |-> 2, SIMILARITY_THRESHOLD |-> Rat(1, 2)]
    /\ index = [p \in Procs |-> NoIndex]
    /\ metadata = [p \in Procs |-> <<>>]
    /\ chunks = [p \in Procs |-> <<>>]
    /\ images_metadata = [p \in Procs |-> <<>>]
    /\ call = NoCall
    /\ walk = NoWalk
    /\ StoreAtRest

\* Two processes, each with its own indexer, on one vector store.
Next == \E p \in Procs : Step(p)

Spec == Init /\ [][Next]_vars

-----------------------------------------------------------------------------
(* Properties of the index store *)

\* Process p has returned from the call `op` with outcome `outcome`.
Returned(p, op, outcome) ==
    pc[p] = "idle" /\ job[p].op = op /\ job[p].outcome = outcome

\* C5: after every successful load (load_index alone or inside
\* build_index) the chunk-metadata list has as many entries as the vector
\* index has rows: a load of mismatched artifacts fails.
C5_LoadChecksRowCount ==
    \A p \in Procs :
        (pc[p] = "idle" /\ job[p].path = "load" /\ job[p].outcome = "ok") =>
            Len(metadata[p]) = Len(index[p].rows)

\* In memory of indexer p: one row per chunk, row i the embedding of chunk
\* i, the chunks those of the chunker, in page order then offset order.
Aligned(p) ==
    /\ metadata[p] = CreateChunks(PagesText(Pdf(job[p].pdf), 1, <<>>))
    /\ Len(index[p].rows) = Len(metadata[p])
    /\ \A i \in 1..Len(metadata[p]) : index[p].rows[i] = Embed(metadata[p][i].text)
    /\ \A i, j \in 1..Len(metadata[p]) :
          i < j => \/ metadata[p][i].page < metadata[p][j].page
                   \/ /\ metadata[p][i].page = metadata[p][j].page
                      /\ metadata[p][i].start_pos < metadata[p][j].start_pos

\* The full build of process p completes the write of a file in this step.
Saves(p, from, to) == pc[p] = from /\ pc'[p] = to

\* C6: in every full build the index and the chunk list are aligned row by
\* row (row i is the embedding of chunk i, chunks in the chunker's order),
\* in memory when build_index returns successfully and at each write of
\* save_index, which persists that index and that same list.
C6_RowsAlignedAfterBuild ==
    [][\A p \in Procs :
          /\ Saves(p, "s_index", "s_metadata") =>
                Aligned(p) /\ disk'.index = Written(index[p].rows)
          /\ Saves(p, "s_metadata", "s_images") =>
                Aligned(p) /\ disk'.metadata = Written(metadata[p])
          /\ (pc[p] # "idle" /\ Returned(p, "build_index", "ok")' /\ job'[p].path = "full") =>
                Aligned(p)']_vars

\* A full build of a document with several distinct chunks has returned.
C6_Witness ==
    \E p \in Procs :
        /\ Returned(p, "build_index", "ok") /\ job[p].path = "full"
        /\ Len(metadata[p]) >= 2
        /\ metadata[p][1].text # metadata[p][2].text

DiskNone == ~Exists(disk.index) /\ ~Exists(disk.metadata) /\ ~Exists(disk.images)
DiskComplete ==
    /\ disk.index.st = "ok" /\ disk.metadata.st = "ok" /\ disk.images.st = "ok"
    /\ disk.index.data = GenerateEmbeddings(disk.metadata.data)

\* C7: after a build that failed, the vector store holds a complete,
\* consistent snapshot or none of the artifacts.
C7_FailedBuildLeavesNoPartial ==
    \A p \in Procs :
        Returned(p, "build_index", "error") => DiskNone \/ DiskComplete

\* The snapshot a full build of a document persists.
SnapshotOf(pdf) ==
    [index |-> GenerateEmbeddings(CreateChunks(PagesText(Pdf(pdf), 1, <<>>))),
     metadata |-> CreateChunks(PagesText(Pdf(pdf), 1, <<>>)),
     images |-> PagesImages(Pdf(pdf), 1, <<>>)]

Loaded(p) ==
    [index |-> index[p].rows, metadata |-> metadata[p], images |-> images_metadata[p]]

\* C8: a load_index that succeeds while another process is inside the
\* writes of its build has loaded a whole snapshot: index, chunk metadata
\* and image metadata of one build.
C8_LoadSeesWholeSnapshot ==
    \A p, q \in Procs :
        (/\ p # q
         /\ Returned(p, "load_index", "ok")
         /\ job[q].path = "full" /\ pc[q] \in {"s_metadata", "s_images", "b_images"}) =>
            \E pdf \in Pdfs : Loaded(p) = SnapshotOf(pdf)

\* C9: at most one process is inside the full pipeline of build_index
\* (from its check of the store to its return) at a time.
C9_OneBuildAtATime ==
    Cardinality({p \in Procs : job[p].path = "full" /\ pc[p] # "idle"}) <= 1

\* C19: build_index on an existing snapshot (index and chunk metadata)
\* loads it without chunking or embedding again, and opens the document to
\* extract image descriptors only if the image-metadata file is missing.
C19_RepairOnlyWithoutImages ==
    [][\A p \in Procs :
          /\ (pc[p] = "b_check" /\ pc'[p] # "b_check"
                /\ Exists(disk.index) /\ Exists(disk.metadata)) =>
                pc'[p] = "l_index"
          /\ (job[p].op = "build_index" /\ job[p].path = "load") =>
                chunks'[p] = chunks[p]
          /\ (job[p].op = "build_index" /\ job[p].path = "load"
                /\ pc[p] # "x_extract" /\ pc'[p] = "x_extract") =>
                ~Exists(disk.images)]_vars

-----------------------------------------------------------------------------
(* Query calls *)

\* Bounds of the query inputs.
MaxTopK == 2
MaxDistance == 2

\* What the embedding model and the index library may answer for a query
\* against the rows of indexer p: whether encode succeeds, a distance for
\* every stored vector and the order among equal distances.
Envs(p) ==
    IF index[p].is_none
    THEN {[dist |-> <<>>, order |-> <<>>, encode_ok |-> TRUE]}
    ELSE LET rows == index[p].rows
             vecs == {rows[i] : i \in 1..Len(rows)}
         IN {[dist |-> d, order |-> o, encode_ok |-> e] :
                <<d, o>> \in {<<d, o>> \in [vecs -> 0..MaxDistance]
                                         \X [1..Len(rows) -> 1..Len(rows)] :
                                o \in SearchOrders(rows, d)},
                e \in BOOLEAN}

LongWord == [i \in 1..KeyPrefixLen |-> "x"]

\* The query strings: "a b c d", "A b", " d ", " " and "".
Queries ==
    { <<"a", " ", "b", " ", "c", " ", "d">>,
      <<"A", " ", "b">>,
      <<" ", "d", " ">>,
      <<" ">>,
      <<>> }

\* A caller makes one call at a time and takes its answer before the next.
Ready == call.op = "none"

Called(op, p, query, top_k, env, ret) ==
    call' = [op |-> op, p |-> p, query |-> query, top_k |-> top_k, env |-> env,
             page_num |-> 0, status |-> ret.status, results |-> ret.results]

SearchSemantic(p) ==
    /\ Ready
    /\ \E query \in Queries, top_k \in 0..MaxTopK, env \in Envs(p) :
          Called("search_semantic", p, query, top_k, env,
                 SearchSemanticOp(p, top_k, env))
    /\ UNCHANGED <<Config, index, metadata, chunks, images_metadata, walk, disk, pc, job>>

SearchKeyword(p) ==
    /\ Ready
    /\ \E query \in Queries, top_k \in 0..MaxTopK :
          Called("search_keyword", p, query, top_k, NoEnv,
                 SearchKeywordOp(p, query, top_k))
    /\ UNCHANGED <<Config, index, metadata, chunks, images_metadata, walk, disk, pc, job>>

\* search_hybrid if search_keyword handed out the chunk records themselves:
\* the down-weighting would then write a similarity into the chunk list.
SearchHybridAliasing(p) ==
    /\ Ready
    /\ \E query \in Queries, top_k \in 0..MaxTopK, env \in Envs(p) :
          /\ Called("search_hybrid", p, query, top_k, env,
                    SearchHybridOp(p, query, top_k, env))
          /\ metadata' =
                [metadata EXCEPT ![p] =
                    [i \in 1..Len(metadata[p]) |->
                        IF WordSet(query) \cap WordSet(metadata[p][i].text) # {}
                        THEN [similarity |-> KeywordWeight(Rat(1, 1))] @@ metadata[p][i]
                        ELSE metadata[p][i]]]
    /\ UNCHANGED <<Config, index, chunks, images_metadata, walk, disk, pc, job>>

SearchHybrid(p) ==
    /\ Ready
    /\ \E query \in Queries, top_k \in 0..MaxTopK, env \in Envs(p) :
          Called("search_hybrid", p, query, top_k, env,
                 SearchHybridOp(p, query, top_k, env))
    /\ UNCHANGED <<Config, index, metadata, chunks, images_metadata, walk, disk, pc, job>>

\* The documents indexed for the query calls, as extract_text_from_pdf
\* returns them: (text, page_number) pairs.  TA and TB are two passages
\* that agree on their first 100 characters.
TA == LongWord \o <<" ", "a", " ", "b", " ", "c", " ", "d">>
TB == LongWord \o <<" ", "a", " ", "b", " ", "c">>
Spaces(n) == [i \in 1..n |-> " "]

SearchChunkSize == KeyPrefixLen + 9

SearchDocs ==
    { << <<TA \o <<" ">> \o TB, 1>> >>,
      << <<TA \o <<" ">> \o TA, 1>> >>,
      << <<<<"a", " ", "b">>, 1>>, <<<<"A", " ", "b">>, 2>>, <<<<"c">>, 3>> >>,
      << <<TA \o <<" ">> \o TB, 1>>, <<<<"c", " ", "d">>, 2>> >>,
      << <<<<"a", " ", "b">> \o Spaces(SearchChunkSize - 3) \o <<"a", " ", "b">>, 1>> >>,
      << <<<<"c", " ", "d">>, 1>> >> }


\* Indexer 1 holds a built index of one of the documents; indexer 2 has
\* neither built nor loaded.
InitSearch ==
    /\ \E th \in {Rat(0, 1), Rat(1, 2)} :
          Config = [CHUNK_SIZE |-> SearchChunkSize, CHUNK_OVERLAP |-> 0,
                    TOP_K_RESULTS |-> MaxTopK, SIMILARITY_THRESHOLD |-> th]
    /\ \E doc \in SearchDocs : \E cs \in {CreateChunks(doc)} :
          /\ metadata = [p \in Procs |-> IF p = 1 THEN cs ELSE <<>>]
          /\ chunks = metadata
          /\ index = [p \in Procs |->
                        IF p = 1 THEN IndexOf(GenerateEmbeddings(cs)) ELSE NoIndex]
    /\ images_metadata = [p \in Procs |-> <<>>]
    /\ call = NoCall
    /\ walk = NoWalk
    /\ StoreAtRest

\* The caller has taken the answer of the last call.
TakeAnswer ==
    /\ call.op # "none"
    /\ call' = NoCall
    /\ UNCHANGED <<Config, index, metadata, chunks, images_metadata, walk, disk, pc, job>>

NextSearch ==
    \/ \E p \in Procs : SearchSemantic(p) \/ SearchKeyword(p) \/ SearchHybrid(p)
    \/ TakeAnswer

SpecSearch == InitSearch /\ [][NextSearch]_vars

\* Calls made one at a time on the vector store of Init: a process makes a
\* step of build_index or load_index only while the others are between
\* calls.
Alone(p) == \A q \in Procs \ {p} : pc[q] = "idle"

NextSeq == \E p \in Procs : Alone(p) /\ Step(p)

SpecSeq == Init /\ [][NextSeq]_vars

\* The pages the agent asks the images of.
MaxPage == 2

\* get_images_for_page(page_num) on indexer p.
GetImagesForPage(p) ==
    /\ Ready
    /\ \E page_num \in 1..MaxPage :
          call' = [NoCall EXCEPT !.op = "get_images_for_page", !.p = p,
                                 !.page_num = page_num,
                                 !.results = GetImagesForPageOp(p, page_num)]
    /\ UNCHANGED <<Config, index, metadata, chunks, images_metadata, walk, disk, pc, job>>

\* One process that builds or loads its indexer and queries it between
\* these calls, whatever their outcome.
NextServe ==
    \/ Ready /\ Step(1)
    \/ /\ pc[1] = "idle"
       /\ \/ SearchSemantic(1) \/ SearchKeyword(1) \/ SearchHybrid(1)
          \/ GetImagesForPage(1)
    \/ TakeAnswer

SpecServe == Init /\ [][NextServe]_vars

-----------------------------------------------------------------------------
(* create_chunks, one pass of its loops at a time *)

\* Bounds of the chunker inputs; MaxWalk stops a walk that would not end.
MaxTextLen == 3
MaxChunkSize == 3
MaxWalk == 8

\* Page texts with some non-whitespace content (extract_text_from_pdf keeps
\* only those), over the characters "a" and " ".
PageTexts ==
    {t \in UNION {[1..n -> {"a", " "}] : n \in 1..MaxTextLen} :
        \E i \in 1..Len(t) : ~IsSpace(t[i])}

\* pages_text of a document of one or of two pages with content.
ChunkInputs ==
    {<< <<t, 1>> >> : t \in PageTexts}
        \cup {<< <<t, 1>>, <<u, 2>> >> : t \in PageTexts, u \in PageTexts}

\* create_chunks(pages_text) is called: chunks = [].
CreateChunksCall ==
    /\ walk.pc = "idle"
    /\ \E pages_text \in ChunkInputs :
          walk' = [pc |-> "for", pages_text |-> pages_text, i |-> 1,
                   start |-> 0, chunks |-> <<>>]
    /\ UNCHANGED <<Config, index, metadata, chunks, images_metadata, call, disk, pc, job>>

\* for text, page_num in pages_text: the next page, start = 0; or the end
\* of the loop.
NextPage ==
    /\ walk.pc = "for"
    /\ walk' = IF walk.i > Len(walk.pages_text)
               THEN [walk EXCEPT !.pc = "return"]
               ELSE [walk EXCEPT !.pc = "while", !.start = 0]
    /\ UNCHANGED <<Config, index, metadata, chunks, images_metadata, call, disk, pc, job>>

\* One evaluation of the while condition and, if it holds, one pass of the
\* loop body (with its break).
WindowPass ==
    /\ walk.pc = "while"
    /\ Len(walk.chunks) < MaxWalk /\ walk.start + MaxWalk > 0
    /\ LET text == walk.pages_text[walk.i][1]
           page_num == walk.pages_text[walk.i][2]
       IN IF walk.start < Len(text)
          THEN \E next \in {WindowStep(text, page_num,
                                       [start |-> walk.start, chunks |-> walk.chunks])} :
                  walk' = [walk EXCEPT !.start = next.start,
                                       !.chunks = next.chunks,
                                       !.pc = IF next.start >= Len(text)
                                              THEN "for" ELSE "while",
                                       !.i = IF next.start >= Len(text)
                                             THEN walk.i + 1 ELSE walk.i]
          ELSE walk' = [walk EXCEPT !.pc = "for", !.i = walk.i + 1]
    /\ UNCHANGED <<Config, index, metadata, chunks, images_metadata, call, disk, pc, job>>

\* return chunks; the caller takes the list.
CreateChunksReturn ==
    /\ walk.pc = "return"
    /\ walk' = NoWalk
    /\ UNCHANGED <<Config, index, metadata, chunks, images_metadata, call, disk, pc, job>>

\* Any CHUNK_SIZE >= 1 and CHUNK_OVERLAP >= 0 the environment may set.
InitChunk ==
    /\ \E size \in 1..MaxChunkSize, overlap \in 0..MaxChunkSize :
          Config = [CHUNK_SIZE |-> size, CHUNK_OVERLAP |-> overlap,
                    TOP_K_RESULTS |-> MaxTopK, SIMILARITY_THRESHOLD |-> Rat(1, 2)]
    /\ index = [p \in Procs |-> NoIndex]
    /\ metadata = [p \in Procs |-> <<>>]
    /\ chunks = [p \in Procs |-> <<>>]
    /\ images_metadata = [p \in Procs |-> <<>>]
    /\ call = NoCall
    /\ walk = NoWalk
    /\ StoreAtRest

NextChunk == CreateChunksCall \/ NextPage \/ WindowPass \/ CreateChunksReturn

SpecChunk == InitChunk /\ [][NextChunk]_vars

\* C4: with CHUNK_OVERLAP >= CHUNK_SIZE create_chunks rejects the
\* configuration: it never starts its walk and never produces a chunk.
C4_RejectsBadOverlap ==
    Config.CHUNK_OVERLAP >= Config.CHUNK_SIZE =>
        /\ walk.pc \in {"idle", "rejected"}
        /\ walk.chunks = <<>>

\* With CHUNK_OVERLAP >= CHUNK_SIZE the walk of a page never ends: it is
\* still on its first page after MaxWalk chunks.
C4_WalkDiverges ==
    /\ Config.CHUNK_OVERLAP >= Config.CHUNK_SIZE
    /\ walk.pc = "while" /\ walk.i = 1
    /\ Len(walk.chunks) = MaxWalk

\* The steps of one call run to its end: a call of create_chunks is not
\* suspended.
SpecChunkFair == SpecChunk /\ WF_vars(NextChunk)

GoodOverlap == Config.CHUNK_OVERLAP < Config.CHUNK_SIZE

\* The window starts of a page text that emit a chunk: the multiples of
\* CHUNK_SIZE - CHUNK_OVERLAP below the length of the text whose window is
\* not all whitespace.
EmittingStarts(text) ==
    {start \in 0..(Len(text) - 1) :
        /\ start % (Config.CHUNK_SIZE - Config.CHUNK_OVERLAP) = 0
        /\ \E i \in (start + 1)..Min(start + Config.CHUNK_SIZE, Len(text)) :
              ~IsSpace(text[i])}

\* The chunks returned are, page by page in input order, one per emitting
\* window start, in increasing start order.
OnePerWindow ==
    /\ \A i \in 1..Len(walk.pages_text) :
          {walk.chunks[k].start_pos :
              k \in {j \in 1..Len(walk.chunks) :
                        walk.chunks[j].page = walk.pages_text[i][2]}}
            = EmittingStarts(walk.pages_text[i][1])
    /\ \A j, k \in 1..Len(walk.chunks) :
          j < k =>
              \/ walk.chunks[j].page < walk.chunks[k].page
              \/ /\ walk.chunks[j].page = walk.chunks[k].page
                 /\ walk.chunks[j].start_pos < walk.chunks[k].start_pos

\* C25: for 0 <= CHUNK_OVERLAP < CHUNK_SIZE every call of create_chunks
\* returns, and it returns, for each page in input order, exactly one chunk
\* per window start 0, s, 2s, ... (s = CHUNK_SIZE - CHUNK_OVERLAP) below the
\* length of the page text whose window is not all whitespace, in
\* increasing start order.
C25_OneChunkPerWindow ==
    /\ []((GoodOverlap /\ walk.pc = "return") => OnePerWindow)
    /\ ((GoodOverlap /\ walk.pc = "for" /\ walk.i = 1) ~> (walk.pc = "return"))

\* A call returned after it walked over an all-whitespace window and
\* emitted a chunk for a later window of the same page.
C25_Witness ==
    /\ GoodOverlap /\ walk.pc = "return"
    /\ \E i \in 1..Len(walk.pages_text) :
          \E start \in 0..(Len(walk.pages_text[i][1]) - 1) :
             /\ start % (Config.CHUNK_SIZE - Config.CHUNK_OVERLAP) = 0
             /\ start \notin EmittingStarts(walk.pages_text[i][1])
             /\ \E k \in 1..Len(walk.chunks) :
                   /\ walk.chunks[k].page = walk.pages_text[i][2]
                   /\ walk.chunks[k].start_pos > start

\* The text of the page a chunk was cut from.
PageTextOf(c) ==
    The({walk.pages_text[i][1] :
            i \in {j \in 1..Len(walk.pages_text) : walk.pages_text[j][2] = c.page}})

\* C26: every chunk create_chunks produced (0 <= CHUNK_OVERLAP <
\* CHUNK_SIZE) has a non-empty trimmed text, a 1-based page number, offsets
\* with 0 <= start_pos < end_pos <= length of the page text, and a text
\* equal to the trimmed slice page_text[start_pos:end_pos].
C26_ChunkWellFormed ==
    (GoodOverlap /\ walk.pc # "idle") =>
        \A k \in 1..Len(walk.chunks) :
            \E c \in {walk.chunks[k]} :
               /\ c.text # <<>>
               /\ ~IsSpace(c.text[1]) /\ ~IsSpace(c.text[Len(c.text)])
               /\ c.page >= 1
               /\ \E i \in 1..Len(walk.pages_text) : walk.pages_text[i][2] = c.page
               /\ 0 <= c.start_pos /\ c.start_pos < c.end_pos
               /\ c.end_pos <= Len(PageTextOf(c))
               /\ c.text = Strip(Slice(PageTextOf(c), c.start_pos, c.end_pos))

\* A call returned a chunk cut by the end of its page and trimmed on both
\* sides of a window reaching past the end of the text.
C26_Witness ==
    /\ GoodOverlap /\ walk.pc = "return"
    /\ \E k \in 1..Len(walk.chunks) :
          \E c \in {walk.chunks[k]} :
             /\ c.start_pos + Config.CHUNK_SIZE > Len(PageTextOf(c))
             /\ c.end_pos = Len(PageTextOf(c))
             /\ Len(c.text) < c.end_pos - c.start_pos
             /\ c.start_pos > 0

-----------------------------------------------------------------------------
(* Properties of search_hybrid *)

Range(s) == {s[i] : i \in 1..Len(s)}

HybridReturned == call.op = "search_hybrid" /\ call.status = "ok"

\* The two result lists search_hybrid fused in the last call.
SemanticOfCall == SearchSemanticOp(call.p, TopKOrDefault(call.top_k) * 2, call.env)
KeywordOfCall == SearchKeywordOp(call.p, call.query, TopKOrDefault(call.top_k) * 2)
SemanticKeys == {Key(r) : r \in Range(SemanticOfCall.results)}
KeywordKeys == {Key(r) : r \in Range(KeywordOfCall.results)}

\* The raw overlap score of a returned passage for the query of the call.
RawScore(r) == OverlapScore(WordSet(call.query), WordSet(r.text))

\* C1: every result of search_hybrid whose key the semantic search did not
\* return has similarity 0.7 times the raw overlap score of its chunk.
C1_KeywordOnlyDownWeighted ==
    HybridReturned =>
        \A r \in Range(call.results) :
            Key(r) \notin SemanticKeys =>
                RatEq(r.similarity, KeywordWeight(RawScore(r)))

\* C2: when keyword results share a key that no semantic result has, the
\* entry search_hybrid keeps for the key is the one with the higher keyword
\* score: no keyword result of that key scores above the kept entry.
C2_KeepsHigherKeyword ==
    HybridReturned =>
        \A r \in Range(call.results) :
            Key(r) \notin SemanticKeys =>
                \A k \in Range(KeywordOfCall.results) :
                    Key(k) = Key(r) => RatLeq(k.similarity, RawScore(r))

\* C3: a result of search_hybrid whose key both searches returned is a
\* semantic result, with the similarity the semantic search gave it (the
\* highest among the semantic results of that key), never a keyword result
\* or a down-weighted score.
C3_SemanticPrecedence ==
    HybridReturned =>
        \A r \in Range(call.results) :
            Key(r) \in SemanticKeys \cap KeywordKeys =>
                /\ r.type = "semantic"
                /\ r \in Range(SemanticOfCall.results)
                /\ \A m \in Range(SemanticOfCall.results) :
                      Key(m) = Key(r) => RatLeq(m.similarity, r.similarity)

\* A fused result whose key both searches returned, the keyword score being
\* the higher of the two.
C3_Witness ==
    /\ HybridReturned
    /\ \E r \in Range(call.results) :
          /\ Key(r) \in SemanticKeys \cap KeywordKeys
          /\ \E k \in Range(KeywordOfCall.results) :
                Key(k) = Key(r) /\ RatLess(r.similarity, KeywordWeight(k.similarity))

\* C10: when one sub-ranker raises and the other succeeds, search_hybrid
\* returns the results of the one that succeeded.
C10_HybridDegrades ==
    call.op = "search_hybrid" =>
        /\ (SemanticOfCall.status = "error" /\ KeywordOfCall.status = "ok") =>
              /\ call.status = "ok"
              /\ call.results = Fuse(<<>>, KeywordOfCall.results, TopKOrDefault(call.top_k))
        /\ (SemanticOfCall.status = "ok" /\ KeywordOfCall.status = "error") =>
              /\ call.status = "ok"
              /\ call.results = Fuse(SemanticOfCall.results, <<>>, TopKOrDefault(call.top_k))

\* C11: search_hybrid called with an explicit top_k >= 0 (0 included)
\* returns at most top_k results.
C11_AtMostTopK ==
    HybridReturned => Len(call.results) <= call.top_k

\* C12: no two results of search_hybrid have the same key (page, first 100
\* characters of the text).
C12_NoDuplicateKeys ==
    HybridReturned =>
        \A i, j \in 1..Len(call.results) :
            i # j => Key(call.results[i]) # Key(call.results[j])

\* search_hybrid returned several results after both searches, or two
\* results of one search, gave the same key.
C12_Witness ==
    /\ HybridReturned
    /\ Len(call.results) >= 2
    /\ \/ SemanticKeys \cap KeywordKeys # {}
       \/ \E i, j \in 1..Len(KeywordOfCall.results) :
             i # j /\ Key(KeywordOfCall.results[i]) = Key(KeywordOfCall.results[j])

\* C13: the list search_hybrid returns is strictly descending in
\* similarity: each result scores above the one after it.
C13_StrictlyDescending ==
    HybridReturned =>
        \A i \in 1..(Len(call.results) - 1) :
            RatLess(call.results[i + 1].similarity, call.results[i].similarity)

-----------------------------------------------------------------------------
(* Properties of search_semantic and search_keyword *)

SemanticReturned == call.op = "search_semantic" /\ call.status = "ok"
KeywordReturned == call.op = "search_keyword" /\ call.status = "ok"

\* C15: search_semantic(query, k) returns at most min(k, row count)
\* results: the unfilled slots of the index answer (row -1) never produce a
\* result, whatever the threshold.
C15_OnlyStoredRows ==
    SemanticReturned =>
        Len(call.results) <= Min(TopKOrDefault(call.top_k), Len(index[call.p].rows))

\* The stored vectors the index answers for the call: the k nearest.
Candidates ==
    {call.env.order[j] :
        j \in 1..Min(TopKOrDefault(call.top_k), Len(index[call.p].rows))}

CandidateSimilarity(i) == Similarity(call.env.dist[index[call.p].rows[i]])

\* C16: every result of search_semantic has similarity 1/(1+distance) at
\* or above SIMILARITY_THRESHOLD, no candidate at or above it is dropped,
\* and a query whose candidates are all below it returns the empty list
\* without error.
C16_ThresholdFilter ==
    (/\ call.op = "search_semantic"
     /\ ~index[call.p].is_none /\ Len(metadata[call.p]) > 0
     /\ call.env.encode_ok) =>
        /\ call.status = "ok"
        /\ \A r \in Range(call.results) :
              RatLeq(Config.SIMILARITY_THRESHOLD, r.similarity)
        /\ \A i \in Candidates :
              RatLeq(Config.SIMILARITY_THRESHOLD, CandidateSimilarity(i)) =>
                  \E r \in Range(call.results) :
                      /\ r.text = metadata[call.p][i].text
                      /\ r.page = metadata[call.p][i].page
                      /\ r.similarity = CandidateSimilarity(i)
        /\ (/\ \A i \in Candidates :
                  RatLess(CandidateSimilarity(i), Config.SIMILARITY_THRESHOLD)
            /\ RatLess(Similarity(NoNeighbourDistance), Config.SIMILARITY_THRESHOLD)) =>
              call.results = <<>>

\* search_semantic kept a candidate at the threshold and dropped one below.
C16_Witness ==
    /\ SemanticReturned
    /\ call.results # <<>>
    /\ \E i \in Candidates :
          RatLess(CandidateSimilarity(i), Config.SIMILARITY_THRESHOLD)
    /\ \E r \in Range(call.results) : RatEq(r.similarity, Config.SIMILARITY_THRESHOLD)

\* The lower-cased whitespace-separated terms two texts share.
SharedTerms(query, text) == WordSet(query) \cap WordSet(text)

\* C17: every result of search_keyword scores exactly
\* |query terms /\ chunk terms| / |query terms|, above 0; a chunk sharing
\* no term with the query is not returned, and a query sharing no term with
\* any chunk returns the empty list.
C17_OverlapScore ==
    KeywordReturned =>
        /\ \A r \in Range(call.results) :
              /\ SharedTerms(call.query, r.text) # {}
              /\ r.similarity.n = Cardinality(SharedTerms(call.query, r.text))
              /\ r.similarity.d = Cardinality(WordSet(call.query))
              /\ r.similarity.n > 0 /\ r.similarity.d > 0
              /\ \E c \in Range(metadata[call.p]) : c.text = r.text /\ c.page = r.page
        /\ (\A c \in Range(metadata[call.p]) : SharedTerms(call.query, c.text) = {}) =>
              call.results = <<>>

\* search_keyword returned matches while a chunk of the list shares no
\* term with the query.
C17_Witness ==
    /\ KeywordReturned
    /\ call.results # <<>>
    /\ \E c \in Range(metadata[call.p]) : SharedTerms(call.query, c.text) = {}

\* search_keyword over the chunk list md.
KeywordOver(md, query, top_k) ==
    Slice(SortBySimilarity(ScoreChunks(WordSet(query), md, 1, <<>>)), 0,
          TopKOrDefault(top_k))

Orderings(n) ==
    {f \in [1..n -> 1..n] : \A i, j \in 1..n : i # j => f[i] # f[j]}

Entry(r) == [text |-> r.text, page |-> r.page, score |-> r.similarity]

\* C18: the (text, page, score) entries search_keyword returns are the
\* same for every permutation of the chunk-metadata list.
C18_OrderIndependent ==
    KeywordReturned =>
        \A f \in Orderings(Len(metadata[call.p])) :
            {Entry(r) : r \in Range(KeywordOver([i \in 1..Len(metadata[call.p]) |->
                                                    metadata[call.p][f[i]]],
                                                call.query, call.top_k))}
                = {Entry(r) : r \in Range(call.results)}

\* C30: search_keyword does not divide by zero: a query without terms
\* (empty or all whitespace) against a non-empty chunk list returns the
\* empty list and raises nothing.
C30_NoTermsNoResults ==
    (/\ call.op = "search_keyword"
     /\ WordSet(call.query) = {}
     /\ metadata[call.p] # <<>>) =>
        /\ call.status = "ok"
        /\ call.results = <<>>

\* search_keyword answered an all-whitespace query over a chunk list.
C30_Witness ==
    /\ call.op = "search_keyword"
    /\ call.query # <<>> /\ WordSet(call.query) = {}
    /\ metadata[call.p] # <<>>
    /\ call.status = "ok"

-----------------------------------------------------------------------------
(* Properties of the rankers over the life of an indexer *)

\* No build_index or load_index of indexer p has succeeded: none was
\* called, or the only one called raised.
NoSuccessYet(p) ==
    job[p].n = 0 \/ (job[p].n = 1 /\ job[p].outcome = "error")

IsIntegerKey(k) == ToString(k) \in {ToString(n) : n \in PageNumbers}

\* C20: save_index (of a successful full build by indexer q) followed by
\* load_index on a fresh indexer p reproduces the snapshot: the same chunk
\* list in the same order, the same index rows, and the same page-to-images
\* map with integer page keys.
C20_RoundTrip ==
    \A p, q \in Procs :
        (/\ p # q
         /\ job[q].n = 1 /\ Returned(q, "build_index", "ok") /\ job[q].path = "full"
         /\ job[p].n = 1 /\ Returned(p, "load_index", "ok")) =>
            /\ Len(metadata[p]) = Len(metadata[q])
            /\ \A i \in 1..Len(metadata[q]) : metadata[p][i] = metadata[q][i]
            /\ index[p] = index[q]
            /\ \A k \in DOMAIN images_metadata[p] : IsIntegerKey(k)
            /\ DOMAIN images_metadata[p] = DOMAIN images_metadata[q]
            /\ \A k \in DOMAIN images_metadata[q] :
                  images_metadata[p][k] = images_metadata[q][k]

\* A fresh indexer has loaded what the build of a document with several
\* chunks and an image saved.
C20_Witness ==
    \E p, q \in Procs :
        /\ p # q
        /\ job[q].n = 1 /\ Returned(q, "build_index", "ok") /\ job[q].path = "full"
        /\ job[p].n = 1 /\ Returned(p, "load_index", "ok")
        /\ Len(metadata[p]) >= 2
        /\ DOMAIN images_metadata[p] # {}


-----------------------------------------------------------------------------
(* Properties of load_index *)

\* C21: a load_index of a snapshot without image-metadata file succeeds
\* and leaves the indexer with no images, whatever its image map held
\* before: get_images_for_page returns the empty list for every page.
C21_LoadWithoutImages ==
    \A p \in Procs :
        (Returned(p, "load_index", "ok") /\ ~Exists(disk.images)) =>
            \A page_num \in PageNumbers : GetImagesForPageOp(p, page_num) = <<>>

\* C22: a load_index that fails leaves the index, the chunk-metadata list
\* and the image map of the indexer as they were before the call; stated
\* for the first call on an indexer, whose fields were those of __init__.
C22_FailedLoadChangesNothing ==
    \A p \in Procs :
        (job[p].n = 1 /\ Returned(p, "load_index", "error")) =>
            /\ index[p] = NoIndex
            /\ metadata[p] = <<>>
            /\ images_metadata[p] = <<>>


-----------------------------------------------------------------------------
(* Properties of the query phase *)

\* C23: a query (search_semantic, search_keyword, search_hybrid,
\* get_images_for_page) leaves the vector index, every entry of the
\* chunk-metadata list and the image map as they were.
C23_QueriesReadOnly ==
    [][(call.op = "none" /\ call'.op # "none") =>
          /\ index' = index
          /\ metadata' = metadata
          /\ images_metadata' = images_metadata]_vars

\* A loaded indexer has answered a search_hybrid with a down-weighted
\* keyword result, and a get_images_for_page with an image.
C23_Witness ==
    /\ call.op # "none"
    /\ Returned(call.p, "load_index", "ok")
    /\ \/ /\ call.op = "search_hybrid" /\ call.status = "ok"
          /\ \E i \in 1..Len(call.results) : call.results[i].type = "keyword"
       \/ /\ call.op = "get_images_for_page"
          /\ call.results # <<>>


-----------------------------------------------------------------------------
(* Ingestion with failing image extraction *)

\* Bound on the images of a page.
MaxImages == 2

\* extract_images_from_page when PyMuPDF raises: fail_at = 0 is
\* page.get_images() raising, fail_at = k is page.get_image_rects raising
\* for the k-th image, a larger fail_at is no failure.  The except clause
\* passes and the descriptors appended so far are returned.
ExtractImagesFromPageFailing(page, fail_at) ==
    IF fail_at = 0 THEN <<>>
    ELSE ImagesInfo(SubSeq(page.images, 1, Min(fail_at - 1, Len(page.images))), 1, <<>>)

\* The image loop of extract_text_from_pdf, fails[n] being where the
\* extraction of page n fails.
RECURSIVE PagesImagesFailing(_, _, _, _)
PagesImagesFailing(doc, n, im, fails) ==
    IF n > Len(doc.pages) THEN im
    ELSE The({PagesImagesFailing(doc, n + 1, next, fails) :
                 next \in {The({IF images_info # <<>> THEN (n :> images_info) @@ im ELSE im :
                                   images_info \in {ExtractImagesFromPageFailing(
                                                        doc.pages[n], fails[n])}})}})

\* The images a page may hold, and the pages and documents ingested.
PageImages ==
    { [xref |-> 7, width |-> 2, height |-> 3,
       rects |-> << [x0 |-> 0, y0 |-> 0, x1 |-> 2, y1 |-> 3] >>],
      [xref |-> 8, width |-> 1, height |-> 1,
       rects |-> << [x0 |-> 0, y0 |-> 0, x1 |-> 1, y1 |-> 1],
                    [x0 |-> 1, y0 |-> 1, x1 |-> 2, y1 |-> 2] >>] }

IngestPages ==
    {[text |-> t, images |-> il] :
        t \in {<<"a">>, <<" ">>},
        il \in UNION {[1..n -> PageImages] : n \in 0..MaxImages}}

IngestDocs ==
    {[pages |-> ps] : ps \in UNION {[1..n -> IngestPages] : n \in 1..2}}

\* extract_text_from_pdf(pdf_path) on a fresh indexer.
ExtractTextFromPdf ==
    /\ Ready
    /\ \E doc \in IngestDocs :
          \E fails \in [1..Len(doc.pages) -> 0..(MaxImages + 1)] :
             /\ images_metadata' =
                   [images_metadata EXCEPT
                       ![1] = PagesImagesFailing(doc, 1, images_metadata[1], fails)]
             /\ call' = [op |-> "extract_text_from_pdf", p |-> 1, doc |-> doc,
                         fails |-> fails, status |-> "ok",
                         results |-> PagesText(doc, 1, <<>>)]
    /\ UNCHANGED <<Config, index, metadata, chunks, walk, disk, pc, job>>

SpecIngest == Init /\ [][ExtractTextFromPdf]_vars

\* C24: when image extraction raises on a page, at the listing of its
\* images or at the rectangles of any image, the page has no descriptor in
\* the image map, and ingestion returns the text of that page and of the
\* later pages.
C24_FailedPageHasNoImages ==
    call.op = "extract_text_from_pdf" =>
        /\ call.status = "ok"
        /\ call.results = PagesText(call.doc, 1, <<>>)
        /\ \A n \in 1..Len(call.doc.pages) :
              call.fails[n] <= Len(call.doc.pages[n].images) =>
                  GetImagesForPageOp(call.p, n) = <<>>


-----------------------------------------------------------------------------
(* extract_image_from_pdf *)

\* Paths are sequences of name parts; NonePath is the value None.
NonePath == [is_none |-> TRUE, name |-> <<>>]
PathOf(name) == [is_none |-> FALSE, name |-> name]

\* A PDF that fitz.open cannot open.
NoPdf == "missing"

\* doc[i]: any integer below the page count loads a page, a negative one
\* counting from the end; the other indices raise IndexError.
PageLoads(doc, i) == i < Len(doc.pages)

\* The xrefs of the images of a document.
ImageXrefs(doc) ==
    UNION {{doc.pages[n].images[k].xref : k \in 1..Len(doc.pages[n].images)} :
              n \in 1..Len(doc.pages)}

\* doc.extract_image(xref): the bytes and the extension of the image.
ExtractImage(xref) == [image |-> <<"bytes", ToString(xref)>>, ext |-> "png"]

\* Config.IMAGES_PATH / f"page_{page_num}_img_{image_xref}.{image_ext}"
DefaultImagePath(page_num, image_xref, image_ext) ==
    PathOf(<<"page_", ToString(page_num), "_img_", ToString(image_xref), ".", image_ext>>)

\* extract_image_from_pdf(pdf_path, page_num, image_xref, output_path):
\* the value returned and the files written; `writable` is whether the
\* output file can be created and written.  Every exception of the body is
\* caught and None returned.
ExtractImageFromPdfOp(pdf_path, page_num, image_xref, output_path, writable) ==
    IF pdf_path = NoPdf THEN [status |-> "ok", results |-> NonePath, files |-> {}]
    ELSE IF ~PageLoads(Pdf(pdf_path), page_num - 1)
    THEN [status |-> "ok", results |-> NonePath, files |-> {}]
    ELSE IF image_xref \notin ImageXrefs(Pdf(pdf_path))
    THEN [status |-> "ok", results |-> NonePath, files |-> {}]
    ELSE LET image == ExtractImage(image_xref)
             path == IF output_path.is_none
                     THEN DefaultImagePath(page_num, image_xref, image.ext)
                     ELSE output_path
         IN IF ~writable
            THEN [status |-> "ok", results |-> NonePath, files |-> {}]
            ELSE [status |-> "ok", results |-> path,
                  files |-> {[path |-> path, bytes |-> image.image]}]

\* The xrefs asked for: the image of document A, and one no document holds.
AskedXrefs == {7, 8}

\* extract_image_from_pdf is called and returns.
ExtractImageFromPdf ==
    /\ Ready
    /\ \E pdf_path \in Pdfs \cup {NoPdf}, page_num \in (0 - MaxPage)..(MaxPage + 1),
          image_xref \in AskedXrefs,
          output_path \in {NonePath, PathOf(<<"out.png">>)},
          writable \in BOOLEAN :
          \E ret \in {ExtractImageFromPdfOp(pdf_path, page_num, image_xref,
                                            output_path, writable)} :
             call' = [op |-> "extract_image_from_pdf", p |-> 1,
                      pdf_path |-> pdf_path, page_num |-> page_num,
                      image_xref |-> image_xref, output_path |-> output_path,
                      writable |-> writable, status |-> ret.status,
                      results |-> ret.results, files |-> ret.files]
    /\ UNCHANGED <<Config, index, metadata, chunks, images_metadata, walk, disk, pc, job>>

SpecImage == Init /\ [][ExtractImageFromPdf]_vars

\* C27: extract_image_from_pdf never raises; when the document cannot be
\* opened, the page number is outside the pages of the document, the xref
\* is unknown or the output is not writable it returns None; and a path it
\* returns is the file the image bytes were written to.
C27_FailureIsNone ==
    call.op = "extract_image_from_pdf" =>
        /\ call.status = "ok"
        /\ (\/ call.pdf_path = NoPdf
            \/ call.page_num \notin 1..Len(Pdf(call.pdf_path).pages)
            \/ call.image_xref \notin ImageXrefs(Pdf(call.pdf_path))
            \/ ~call.writable) => call.results = NonePath
        /\ call.results # NonePath =>
              call.files = {[path |-> call.results,
                             bytes |-> ExtractImage(call.image_xref).image]}


-----------------------------------------------------------------------------
(* The build script: main() of build_index.py *)

\* What the user types at the prompt.
Responses == {<<"y">>, <<"Y">>, <<"n">>, <<>>}

\* main(): if the index file exists the user is asked whether to rebuild
\* it, and any answer but y ends the script; otherwise a new PDFIndexer
\* calls build_index(pdf_path).  `call` holds the run of the script.
BuildScriptMain(p) ==
    /\ pc[p] = "idle"
    /\ \E response \in IF Exists(disk.index) THEN Responses ELSE {<<"none">>} :
          IF Exists(disk.index) /\ Lower(response) # <<"y">>
          THEN /\ call' = [op |-> "main", p |-> p, prompted |-> TRUE,
                           response |-> response, n |-> 0]
               /\ UNCHANGED <<index, metadata, chunks, images_metadata, pc, job>>
          ELSE /\ CallsMade < MaxCalls
               /\ call' = [op |-> "main", p |-> p, prompted |-> Exists(disk.index),
                           response |-> response, n |-> job[p].n + 1]
               /\ index' = [index EXCEPT ![p] = NoIndex]
               /\ metadata' = [metadata EXCEPT ![p] = <<>>]
               /\ chunks' = [chunks EXCEPT ![p] = <<>>]
               /\ images_metadata' = [images_metadata EXCEPT ![p] = <<>>]
               /\ \E pdf \in Pdfs :
                     job' = [job EXCEPT ![p] = [op |-> "build_index", pdf |-> pdf,
                                                outcome |-> "running", path |-> "none",
                                                pages_text |-> <<>>, n |-> job[p].n + 1]]
               /\ pc' = [pc EXCEPT ![p] = "b_check"]
    /\ UNCHANGED <<Config, walk, disk>>

NextScript == \E p \in Procs : Alone(p) /\ (Step(p) \/ BuildScriptMain(p))

SpecScript == Init /\ [][NextScript]_vars

\* The script run recorded in `call` answered y to the prompt and its
\* build_index call has returned.
RebuildAnswered ==
    /\ call.op = "main" /\ call.prompted /\ Lower(call.response) = <<"y">>
    /\ job[call.p].n = call.n
    /\ Returned(call.p, "build_index", "ok")

\* C28: when the index file exists and the user answers y to the prompt
\* of the build script, the script runs the whole pipeline on the PDF
\* (ingestion, chunking, embedding, save) instead of loading the existing
\* artifacts.
C28_YesRebuilds ==
    (call.op # "none" /\ RebuildAnswered) => job[call.p].path = "full"


-----------------------------------------------------------------------------
(* Properties of the artifacts on disk *)

\* C29: in every state of the vector store, also after a save_index that
\* failed part-way, the chunk-metadata file exists whenever the index file
\* exists, so that a load_index that has read the index file finds the
\* chunk metadata.
C29_IndexImpliesMetadata ==
    /\ Exists(disk.index) => Exists(disk.metadata)
    /\ \A p \in Procs : pc[p] = "l_metadata" => Exists(disk.metadata)


====
